---- MODULE Spec2Model ----
(***************************************************************************)
(* A model of the SEM planning endpoint generate_sem_plan (src/main.py)    *)
(* and of the helpers it calls.                                            *)
(*                                                                         *)
(* Representation.                                                         *)
(*   - A Python str is a sequence of one-character strings, so that        *)
(*     substring tests, lower(), strip(), split() and replace() are        *)
(*     computed character by character.                                    *)
(*   - An Optional value is a sequence of length at most one: << >> is     *)
(*     None and << v >> is the value v.                                    *)
(*   - A float holding an amount of money is a record [nan, v]: v is the   *)
(*     amount in thousandths (mills), nan marks IEEE not-a-number.         *)
(*     round(x, 2) rounds to a multiple of ten mills.                      *)
(*   - The text returned by the text-generation collaborator is a sequence *)
(*     of JSON lexemes (see the section on parse_llm_json).                *)
(***************************************************************************)
EXTENDS Integers, Sequences, FiniteSets, TLC

(***************************************************************************)
(* Python str operations                                                   *)
(***************************************************************************)

\* str.lower() on one character (ASCII letters).
UpperToLower == [A |-> "a", B |-> "b", C |-> "c", D |-> "d", E |-> "e", F |-> "f", G |-> "g", H |-> "h", I |-> "i", J |-> "j", K |-> "k", L |-> "l", M |-> "m", N |-> "n", O |-> "o", P |-> "p", Q |-> "q", R |-> "r", S |-> "s", T |-> "t", U |-> "u", V |-> "v", W |-> "w", X |-> "x", Y |-> "y", Z |-> "z"]

LowerChar(c) == IF c \in DOMAIN UpperToLower THEN UpperToLower[c] ELSE c

\* str.lower()
Lower(s) == SubSeq([i \in 1..Len(s) |-> LowerChar(s[i])], 1, Len(s))

\* s[i:].startswith(sub), i counted from 1
StartsWithAt(s, sub, i) == /\ i + Len(sub) - 1 <= Len(s)
                           /\ \A j \in 1..Len(sub) : s[i + j - 1] = sub[j]

\* Python's `sub in s`. The empty string is a substring of every string.
Contains(sub, s) == \E i \in 1..(Len(s) - Len(sub) + 1) : StartsWithAt(s, sub, i)

\* The characters str.strip() and str.split() treat as whitespace.
IsSpace(c) == c \in {" ", "\t", "\n"}

RECURSIVE LStrip(_)
LStrip(s) == IF s # << >> /\ IsSpace(Head(s)) THEN LStrip(Tail(s)) ELSE s

RECURSIVE RStrip(_)
RStrip(s) == IF s # << >> /\ IsSpace(s[Len(s)]) THEN RStrip(SubSeq(s, 1, Len(s) - 1)) ELSE s

\* str.strip()
Strip(s) == RStrip(LStrip(s))

\* len(s.split()): the number of maximal runs of non-whitespace characters.
WordCount(s) == Cardinality({i \in 1..Len(s) : /\ ~IsSpace(s[i])
                                               /\ (i = 1 \/ IsSpace(s[i - 1]))})

\* s.replace(pat, ""): every non-overlapping occurrence, scanning from the left.
RECURSIVE RemoveAll(_, _)
RemoveAll(s, pat) == IF s = << >> THEN << >>
                     ELSE IF StartsWithAt(s, pat, 1) THEN RemoveAll(SubSeq(s, Len(pat) + 1, Len(s)), pat)
                     ELSE <<Head(s)>> \o RemoveAll(Tail(s), pat)

\* s.split(sep) for a one-character separator: always at least one piece.
RECURSIVE SplitOn(_, _)
SplitOn(s, sep) == IF \E i \in 1..Len(s) : s[i] = sep
                   THEN LET i == CHOOSE k \in 1..Len(s) : s[k] = sep /\ \A j \in 1..(k - 1) : s[j] # sep
                        IN  <<SubSeq(s, 1, i - 1)>> \o SplitOn(SubSeq(s, i + 1, Len(s)), sep)
                   ELSE <<s>>

\* Sequence helpers used throughout.
SeqMap(Op(_), s) == SubSeq([i \in 1..Len(s) |-> Op(s[i])], 1, Len(s))

RECURSIVE SumSeq(_)
SumSeq(s) == IF s = << >> THEN 0 ELSE Head(s) + SumSeq(Tail(s))

RECURSIVE Flatten(_)
Flatten(ss) == IF ss = << >> THEN << >> ELSE Head(ss) \o Flatten(Tail(ss))

(***************************************************************************)
(* clean_domain                                                            *)
(***************************************************************************)

HttpScheme == <<"h", "t", "t", "p", ":", "/", "/">>

HttpsScheme == <<"h", "t", "t", "p", "s", ":", "/", "/">>

WwwDot == <<"w", "w", "w", ".">>

\* re.sub(r"https?://", "", u): every match, leftmost first, is removed.
RECURSIVE SubScheme(_)
SubScheme(u) == IF u = << >> THEN << >>
                ELSE IF StartsWithAt(u, HttpsScheme, 1) THEN SubScheme(SubSeq(u, Len(HttpsScheme) + 1, Len(u)))
                ELSE IF StartsWithAt(u, HttpScheme, 1) THEN SubScheme(SubSeq(u, Len(HttpScheme) + 1, Len(u)))
                ELSE <<Head(u)>> \o SubScheme(Tail(u))

clean_domain(url) == IF url = << >> THEN << >>
                     ELSE Lower(SplitOn(RemoveAll(SubScheme(url), WwwDot), ".")[1])

(***************************************************************************)
(* Floats: float(), round(x, 2), min()                                     *)
(***************************************************************************)

Digits == <<"0", "1", "2", "3", "4", "5", "6", "7", "8", "9">>

IsDigit(c) == \E d \in 1..Len(Digits) : Digits[d] = c

DigitVal(c) == (CHOOSE d \in 1..Len(Digits) : Digits[d] = c) - 1

RECURSIVE DigitsVal(_)
DigitsVal(s) == IF s = << >> THEN 0 ELSE 10 * DigitsVal(SubSeq(s, 1, Len(s) - 1)) + DigitVal(s[Len(s)])

\* A float: v in mills (thousandths), or not-a-number.
Num(v) == [nan |-> FALSE, v |-> v]

NaN == [nan |-> TRUE, v |-> 0]

NoFloat == [ok |-> FALSE, f |-> NaN]

\* The value of an unsigned decimal literal  digits [ "." digits ]  with at least
\* one digit, in mills (digits after the third decimal place are dropped).
DecimalParts(ip, fp) == IF /\ Len(ip) + Len(fp) >= 1
                           /\ \A i \in 1..Len(ip) : IsDigit(ip[i])
                           /\ \A i \in 1..Len(fp) : IsDigit(fp[i])
                        THEN [ok |-> TRUE, f |-> Num(1000 * DigitsVal(ip) + DigitsVal(SubSeq(fp \o <<"0", "0", "0">>, 1, 3)))]
                        ELSE NoFloat

DecimalSplit(parts) == IF Len(parts) <= 2 THEN DecimalParts(parts[1], IF Len(parts) = 2 THEN parts[2] ELSE << >>)
                       ELSE NoFloat

DecimalLiteral(s) == DecimalSplit(SplitOn(s, "."))

\* float(s): surrounding whitespace is ignored, then an optional sign, then
\* "nan" in any case or a decimal literal.  ok = FALSE is ValueError.
\* (Exponents, underscores and "inf" are outside the alphabet of the model.)
Negated(lit, negative) == IF lit.ok /\ negative THEN [ok |-> TRUE, f |-> Num(0 - lit.f.v)] ELSE lit

FloatOfBody(body, negative) == IF Lower(body) = <<"n", "a", "n">> THEN [ok |-> TRUE, f |-> NaN]
                               ELSE Negated(DecimalLiteral(body), negative)

FloatOfStripped(t) == IF t # << >> /\ t[1] \in {"+", "-"} THEN FloatOfBody(Tail(t), t[1] = "-")
                      ELSE FloatOfBody(t, FALSE)

ParseFloat(s) == FloatOfStripped(Strip(s))

\* The integer nearest to n / d (d > 0); an exact tie goes up when tieUp, down
\* otherwise: which way round() sends a decimal tie depends on the binary value
\* the float really holds, so both outcomes are kept.
RoundDiv(n, d, tieUp) == LET q == n \div d
                             r == n % d
                         IN  IF 2 * r < d THEN q
                             ELSE IF 2 * r > d THEN q + 1
                             ELSE IF tieUp THEN q + 1 ELSE q

\* round(x, 2) of a float: NaN stays NaN.
Round2(f, tieUp) == IF f.nan THEN NaN ELSE Num(10 * RoundDiv(f.v, 10, tieUp))

\* min(a, b): Python keeps a unless b < a, and every comparison with NaN is false.
PyMin(a, b) == IF ~a.nan /\ ~b.nan /\ b.v < a.v THEN b ELSE a

(***************************************************************************)
(* The cpc_range parse of lines 204 and 268                                *)
(***************************************************************************)

\* low, high = [float(p.strip().replace("$", "")) for p in cpc_range.split("-")]
\* ok = FALSE when the statement raises: a piece float() rejects, or a number
\* of pieces other than two.
PieceFloat(p) == ParseFloat(RemoveAll(Strip(p), <<"$">>))

Unpack(fs) == IF Len(fs) = 2 /\ fs[1].ok /\ fs[2].ok
              THEN [ok |-> TRUE, low |-> fs[1].f, high |-> fs[2].f]
              ELSE [ok |-> FALSE, low |-> NaN, high |-> NaN]

ParseCpcRange(r) == Unpack(SeqMap(PieceFloat, SplitOn(r, "-")))

\* (low + high) / 2.0
Midpoint(low, high) == IF low.nan \/ high.nan THEN NaN ELSE Num((low.v + high.v) \div 2)

(***************************************************************************)
(* JSON.  A text is a sequence of lexemes [k, s]: k is one of the          *)
(* punctuation marks, "str" (s its characters), "num" (s its digits),      *)
(* "null", or "word" for anything json.loads cannot read (prose, a code    *)
(* fence).  Whitespace between lexemes is not represented.                 *)
(* A value is [t |-> "obj", members |-> <<[key, val], ...>>],              *)
(* [t |-> "arr", items |-> <<...>>] or a scalar [t, s] with t one of       *)
(* "str", "num", "null".                                                   *)
(***************************************************************************)

Tok(k) == [k |-> k, s |-> << >>]

StrTok(s) == [k |-> "str", s |-> s]

NumTok(s) == [k |-> "num", s |-> s]

JNull == [t |-> "null", s |-> << >>]

JObj(members) == [t |-> "obj", members |-> members]

JArr(items) == [t |-> "arr", items |-> items]

ParseFail == [ok |-> FALSE, val |-> JNull, next |-> 0]

ParseOk(val, next) == [ok |-> TRUE, val |-> val, next |-> next]

KindAt(toks, i) == IF i <= Len(toks) THEN toks[i].k ELSE "eof"

RECURSIVE ParseValue(_, _)
RECURSIVE ParseMembers(_, _, _)
RECURSIVE ParseItems(_, _, _)

\* One JSON value starting at lexeme i.
ParseValue(toks, i) == CASE KindAt(toks, i) = "{" -> IF KindAt(toks, i + 1) = "}" THEN ParseOk(JObj(<< >>), i + 2)
                                                      ELSE ParseMembers(toks, i + 1, << >>)
                         [] KindAt(toks, i) = "[" -> IF KindAt(toks, i + 1) = "]" THEN ParseOk(JArr(<< >>), i + 2)
                                                      ELSE ParseItems(toks, i + 1, << >>)
                         [] KindAt(toks, i) \in {"str", "num"} -> ParseOk([t |-> toks[i].k, s |-> toks[i].s], i + 1)
                         [] KindAt(toks, i) = "null" -> ParseOk(JNull, i + 1)
                         [] OTHER -> ParseFail

\* "key" : value { , "key" : value } "}"   with acc the members read so far.
ParseMembers(toks, i, acc) == IF KindAt(toks, i) = "str" /\ KindAt(toks, i + 1) = ":"
                              THEN LET r == ParseValue(toks, i + 2)
                                       acc2 == Append(acc, [key |-> toks[i].s, val |-> r.val])
                                   IN  IF ~r.ok THEN ParseFail
                                       ELSE IF KindAt(toks, r.next) = "," THEN ParseMembers(toks, r.next + 1, acc2)
                                       ELSE IF KindAt(toks, r.next) = "}" THEN ParseOk(JObj(acc2), r.next + 1)
                                       ELSE ParseFail
                              ELSE ParseFail

\* value { , value } "]"   with acc the items read so far.
ParseItems(toks, i, acc) == LET r == ParseValue(toks, i)
                                acc2 == Append(acc, r.val)
                            IN  IF ~r.ok THEN ParseFail
                                ELSE IF KindAt(toks, r.next) = "," THEN ParseItems(toks, r.next + 1, acc2)
                                ELSE IF KindAt(toks, r.next) = "]" THEN ParseOk(JArr(acc2), r.next + 1)
                                ELSE ParseFail

\* json.loads(text): one value and nothing after it; ok = FALSE is the exception.
Whole(r, n) == IF r.ok /\ r.next = n + 1 THEN r ELSE ParseFail

json_loads(toks) == Whole(ParseValue(toks, 1), Len(toks))

\* text.find("{") and text.rfind("}") (0 when absent).
FindOpen(toks) == IF \E i \in 1..Len(toks) : toks[i].k = "{"
                  THEN CHOOSE i \in 1..Len(toks) : toks[i].k = "{" /\ \A j \in 1..(i - 1) : toks[j].k # "{"
                  ELSE 0

RFindClose(toks) == IF \E i \in 1..Len(toks) : toks[i].k = "}"
                    THEN CHOOSE i \in 1..Len(toks) : toks[i].k = "}" /\ \A j \in (i + 1)..Len(toks) : toks[j].k # "}"
                    ELSE 0

\* parse_llm_json: the value read directly, else the value read from the first
\* "{" to the last "}", else the empty object.  The direct read returns whatever
\* json.loads returns, also when that is not an object.
Sliced(text, start, end) == IF start # 0 /\ end # 0 /\ end > start THEN json_loads(SubSeq(text, start, end))
                            ELSE ParseFail

FirstRead(direct, text) == IF direct.ok THEN direct ELSE Sliced(text, FindOpen(text), RFindClose(text))

ValueOrEmpty(r) == IF r.ok THEN r.val ELSE JObj(<< >>)

parse_llm_json(text) == IF text = << >> THEN JObj(<< >>)
                        ELSE ValueOrEmpty(FirstRead(json_loads(text), text))

\* dict.get(key, default): the last member with that key wins, as in json.loads.
DictGet(obj, key, default) == LET hits == {i \in 1..Len(obj.members) : obj.members[i].key = key}
                              IN  IF hits = {} THEN default
                                  ELSE obj.members[CHOOSE i \in hits : \A j \in hits : j <= i].val

\* bool(value)
Truthy(val) == CASE val.t = "obj" -> val.members # << >>
                 [] val.t = "arr" -> val.items # << >>
                 [] val.t = "str" -> val.s # << >>
                 [] val.t = "num" -> \E i \in 1..Len(val.s) : val.s[i] # "0"
                 [] OTHER -> FALSE

(***************************************************************************)
(* generate_pmax_themes_llm                                                *)
(***************************************************************************)

K_themes == <<"t", "h", "e", "m", "e", "s">>

K_name == <<"n", "a", "m", "e">>

K_keywords == <<"k", "e", "y", "w", "o", "r", "d", "s">>

ProductWords == <<<<"p", "r", "o", "d", "u", "c", "t">>, <<"p", "r", "o", "t", "e", "i", "n">>, <<"w", "h", "e", "y">>, <<"v", "e", "g", "a", "n">>, <<"o", "r", "g", "a", "n", "i", "c">>>>

UsecaseWords == <<<<"u", "s", "e">>, <<"r", "e", "c", "o", "v", "e", "r", "y">>, <<"w", "e", "i", "g", "h", "t">>>>

DemographicWords == <<<<"c", "i", "t", "y">>, <<"i", "n", "d", "i", "a">>, <<"d", "e", "l", "h", "i">>, <<"m", "u", "m", "b", "a", "i">>, <<"l", "o", "c", "a", "t", "i", "o", "n">>>>

SeasonalWords == <<<<"s", "e", "a", "s", "o", "n">>, <<"s", "u", "m", "m", "e", "r">>, <<"w", "i", "n", "t", "e", "r">>, <<"h", "o", "l", "i", "d", "a", "y">>, <<"f", "e", "s", "t">>, <<"d", "i", "w", "a", "l", "i">>, <<"x", "m", "a", "s">>>>

SeasonalSuffix == <<" ", "s", "e", "a", "s", "o", "n", "a", "l", " ", "t", "r", "e", "n", "d", "s">>

AnyIn(words, name) == \E i \in 1..Len(words) : Contains(words[i], name)

\* ThemeBucket with the usecase words tested first.
ThemeBucket_UsecaseFirst(name) == IF AnyIn(UsecaseWords, name) THEN "usecase"
                                  ELSE IF AnyIn(ProductWords, name) THEN "product"
                                  ELSE IF AnyIn(DemographicWords, name) THEN "demographic"
                                  ELSE IF AnyIn(SeasonalWords, name) THEN "seasonal"
                                  ELSE "product"

\* The if/elif chain of lines 132-141 on a lower-cased theme name.
ThemeBucket(name) == IF AnyIn(ProductWords, name) THEN "product"
                     ELSE IF AnyIn(UsecaseWords, name) THEN "usecase"
                     ELSE IF AnyIn(DemographicWords, name) THEN "demographic"
                     ELSE IF AnyIn(SeasonalWords, name) THEN "seasonal"
                     ELSE "product"

\* uniq that never skips an element.
uniq_KeepAll(seq) == seq

\* uniq: the first occurrence of each element, in order.
RECURSIVE uniq(_)
uniq(seq) == IF seq = << >> THEN << >>
             ELSE LET init == uniq(SubSeq(seq, 1, Len(seq) - 1))
                      x == seq[Len(seq)]
                  IN  IF \E i \in 1..Len(init) : init[i] = x THEN init ELSE Append(init, x)

PMaxTheme(keywords) == [keywords |-> keywords, total_volume |-> 0]

\* Fallback with "more than three words" for the usecase list.
Fallback_OverThree(keywords, locations) == [product |-> PMaxTheme(keywords), usecase |-> PMaxTheme(SelectSeq(keywords, LAMBDA kw : WordCount(kw) > 3)), demographic |-> PMaxTheme(locations), seasonal |-> PMaxTheme(SeqMap(LAMBDA loc : loc \o SeasonalSuffix, locations))]

\* The fallback of lines 82-87.
Fallback(keywords, locations) == [product |-> PMaxTheme(keywords), usecase |-> PMaxTheme(SelectSeq(keywords, LAMBDA kw : WordCount(kw) >= 3)), demographic |-> PMaxTheme(locations), seasonal |-> PMaxTheme(SeqMap(LAMBDA loc : loc \o SeasonalSuffix, locations))]

\* Lines 128-131 for one entry t of themes_list.
\* name: t.get("name", "") of a dict, "" otherwise; nameIsStr is false when the
\* value has no lower().  kws: the elements of t.get("keywords", []) when that is
\* a list, each kept as a scalar [t, s] (a nested list or dict keeps only its tag).
ThemeName(t) == IF t.t = "obj" THEN DictGet(t, K_name, [t |-> "str", s |-> << >>]) ELSE [t |-> "str", s |-> << >>]

Scalar(x) == [t |-> x.t, s |-> IF x.t \in {"str", "num"} THEN x.s ELSE << >>]

ListItems(v) == IF v.t = "arr" THEN SeqMap(Scalar, v.items) ELSE << >>

ThemeKws(t) == IF t.t = "obj" THEN ListItems(DictGet(t, K_keywords, JArr(<< >>))) ELSE << >>

\* The elements the loop of lines 127-141 appends to one bucket: tags[i] is the
\* bucket of entry i.
RECURSIVE BucketOf(_, _, _)
BucketOf(entries, tags, bucket) == IF entries = << >> THEN << >>
                                   ELSE (IF Head(tags) = bucket THEN ThemeKws(Head(entries)) ELSE << >>) \o BucketOf(Tail(entries), Tail(tags), bucket)

\* PMaxTheme(keywords = ...) validates List[str]: a str passes; a number is
\* turned into its text by a lax validator and rejected by a strict one; None
\* is rejected.
ElementsValid(elems, strict) == \A i \in 1..Len(elems) : elems[i].t = "str" \/ (elems[i].t = "num" /\ ~strict)

TextsOf(elems) == SeqMap(LAMBDA e : e.s, elems)

\* SkipsLlm without the test of line 89.
SkipsLlm_Never(m) == FALSE

\* Line 89: `if not model: return fallback`, before any call is made.
SkipsLlm(m) == ~m

\* The value a raising call is given in the model; it is never read.
NoThemes == [product |-> PMaxTheme(<< >>), usecase |-> PMaxTheme(<< >>), demographic |-> PMaxTheme(<< >>), seasonal |-> PMaxTheme(<< >>)]

\* Line 122: themes_list = parsed.get("themes") or [], and line 126: its
\* entries when it is a list.
ThemesList(got) == IF Truthy(got) /\ got.t = "arr" THEN got.items ELSE << >>

\* Lines 128 and 132-141: the bucket of one entry.
TagOf(t) == ThemeBucket(Lower(ThemeName(t).s))

\* Lines 124-149: the four lists after the loop, each through uniq.
Buckets(entries, tags) == [product |-> uniq(BucketOf(entries, tags, "product")), usecase |-> uniq(BucketOf(entries, tags, "usecase")), demographic |-> uniq(BucketOf(entries, tags, "demographic")), seasonal |-> uniq(BucketOf(entries, tags, "seasonal"))]

\* An exception inside lines 127-156:
\*   - .lower() on a name that is not a str (line 128);
\*   - an unhashable element in uniq (line 146);
\*   - an element PMaxTheme rejects (lines 152-155).
ThemesRaise(entries, all, strict) == \/ \E i \in 1..Len(entries) : ThemeName(entries[i]).t # "str"
                                     \/ \E i \in 1..Len(all) : all[i].t \in {"arr", "obj"}
                                     \/ ~ElementsValid(all, strict)

\* Lines 151-156
Returned(b, keywords, locations) == [product |-> PMaxTheme(IF b.product # << >> THEN TextsOf(b.product) ELSE uniq(keywords)), usecase |-> PMaxTheme(TextsOf(b.usecase)), demographic |-> PMaxTheme(IF b.demographic # << >> THEN TextsOf(b.demographic) ELSE locations), seasonal |-> PMaxTheme(TextsOf(b.seasonal))]

FromBuckets(entries, b, keywords, locations, strict) == IF ThemesRaise(entries, b.product \o b.usecase \o b.demographic \o b.seasonal, strict)
                                                        THEN [raised |-> TRUE, themes |-> NoThemes]
                                                        ELSE [raised |-> FALSE, themes |-> Returned(b, keywords, locations)]

FromEntries(entries, keywords, locations, strict) == FromBuckets(entries, Buckets(entries, SeqMap(TagOf, entries)), keywords, locations, strict)

\* Lines 121-156.  parsed.get on a value that is not a dict raises (line 122).
FromParsed(parsed, keywords, locations, strict) == IF parsed.t # "obj" THEN [raised |-> TRUE, themes |-> NoThemes]
                                                   ELSE FromEntries(ThemesList(DictGet(parsed, K_themes, JNull)), keywords, locations, strict)

\* The result of generate_pmax_themes_llm.  llm is [configured, raises, text].
\* raised = TRUE: an exception leaves the function (and generate_sem_plan).
generate_pmax_themes_llm(keywords, locations, llm, strict) == IF SkipsLlm(llm.configured) \/ llm.raises THEN [raised |-> FALSE, themes |-> Fallback(keywords, locations)]
                                                              ELSE FromParsed(parse_llm_json(llm.text), keywords, locations, strict)

(***************************************************************************)
(* generate_sem_plan: the computation between the collaborator calls       *)
(***************************************************************************)

\* `x or default` / truthiness of an Optional[int] and of an Optional[str].
IntOrZero(opt) == IF opt = << >> THEN 0 ELSE opt[1]

StrOrEmpty(opt) == IF opt = << >> THEN << >> ELSE opt[1]

\* The volume threshold of line 182.
MinVolume == 500

\* PassesFilter with the comparison made strict.
PassesFilter_Above(kw) == IntOrZero(kw.search_volume) # 0 /\ IntOrZero(kw.search_volume) > MinVolume

\* Line 182: kw.get("search_volume") and kw["search_volume"] >= 500
PassesFilter(kw) == IntOrZero(kw.search_volume) # 0 /\ IntOrZero(kw.search_volume) >= MinVolume

\* Lines 181-194: the filter, then one KeywordFull per surviving record.
KeywordFull(kw) == [keyword |-> kw.keyword, search_volume |-> kw.search_volume, competition |-> kw.competition, cpc_range |-> kw.cpc_range]

FilterKeywords(keywords_data) == SeqMap(KeywordFull, SelectSeq(keywords_data, PassesFilter))

\* Line 197
TotalVolume(keyword_objects) == SumSeq(SeqMap(LAMBDA k : IntOrZero(k.search_volume), keyword_objects))

\* Lines 202-207 and 266-272 for one keyword: the midpoint when cpc_range is
\* truthy and parses, nothing otherwise.
MidOf(r) == IF r.ok THEN <<Midpoint(r.low, r.high)>> ELSE << >>

CpcMidpoint(kw) == IF StrOrEmpty(kw.cpc_range) # << >> THEN MidOf(ParseCpcRange(StrOrEmpty(kw.cpc_range))) ELSE << >>

RECURSIVE FloatSum(_)
FloatSum(fs) == IF fs = << >> THEN Num(0)
                ELSE LET rest == FloatSum(Tail(fs))
                     IN  IF Head(fs).nan \/ rest.nan THEN NaN ELSE Num(Head(fs).v + rest.v)

\* Lines 200-208
RoundMean(total, n, tieUp) == IF total.nan THEN NaN ELSE Num(10 * RoundDiv(total.v, 10 * n, tieUp))

MeanOf(cpc_midpoints, tieUp) == IF cpc_midpoints = << >> THEN Num(0)
                                ELSE RoundMean(FloatSum(cpc_midpoints), Len(cpc_midpoints), tieUp)

AvgCpc(keyword_objects, tieUp) == MeanOf(Flatten(SeqMap(CpcMidpoint, keyword_objects)), tieUp)

G_Brand == "Brand & Product Terms"

G_Category == "Category Terms"

G_Competitor == "Competitor Terms"

G_Informational == "Informational Queries"

G_Location == "Location-based Queries"

GroupNames == {G_Brand, G_Category, G_Competitor, G_Informational, G_Location}

\* Lines 241-243: target_locations is truthy and some comma-separated piece,
\* stripped and lower-cased, is a substring of text.  LocationKeys are those
\* pieces (none when target_locations is empty).
LocationKeys(target_locations) == IF target_locations # << >> THEN SeqMap(LAMBDA loc : Lower(Strip(loc)), SplitOn(target_locations, ",")) ELSE << >>

MatchesLocation(text, location_keys) == \E i \in 1..Len(location_keys) : Contains(location_keys[i], text)

\* Lines 236-248: the ad group of one keyword, given brand_key and
\* competitor_key of lines 224-225.
\* GroupOfText with the competitor test ahead of the brand test.
GroupOfText_CompetitorFirst(text, brand_key, competitor_key, location_keys) == IF competitor_key # << >> /\ Contains(competitor_key, text) THEN G_Competitor
                                                                               ELSE IF brand_key # << >> /\ Contains(brand_key, text) THEN G_Brand
                                                                               ELSE IF MatchesLocation(text, location_keys) THEN G_Location
                                                                               ELSE IF WordCount(text) >= 3 THEN G_Informational
                                                                               ELSE G_Category

GroupOfText(text, brand_key, competitor_key, location_keys) == IF brand_key # << >> /\ Contains(brand_key, text) THEN G_Brand
                                                               ELSE IF competitor_key # << >> /\ Contains(competitor_key, text) THEN G_Competitor
                                                               ELSE IF MatchesLocation(text, location_keys) THEN G_Location
                                                               ELSE IF WordCount(text) >= 3 THEN G_Informational
                                                               ELSE G_Category

AdGroupOf(kw, brand_key, competitor_key, location_keys) == GroupOfText(Lower(kw.keyword), brand_key, competitor_key, location_keys)

\* Lines 224-248: the group of each keyword, then the five lists, each in the
\* order of keyword_objects.
GroupsWith(keyword_objects, brand_key, competitor_key, location_keys) == SeqMap(LAMBDA kw : AdGroupOf(kw, brand_key, competitor_key, location_keys), keyword_objects)

AdGroups(keyword_objects, req) == GroupsWith(keyword_objects, clean_domain(req.brand_website), clean_domain(StrOrEmpty(req.competitor_website)), LocationKeys(req.target_locations))

RECURSIVE Pick(_, _, _)
Pick(objs, groups, g) == IF objs = << >> THEN << >>
                         ELSE (IF Head(groups) = g THEN <<Head(objs)>> ELSE << >>) \o Pick(Tail(objs), Tail(groups), g)

\* Lists with the append to "Category Terms" outside the chain: every keyword
\* is also a category term.
Lists_CategoryAlways(keyword_objects, groups) == [g \in GroupNames |-> IF g = G_Category THEN keyword_objects ELSE Pick(keyword_objects, groups, g)]

Lists(keyword_objects, groups) == [g \in GroupNames |-> Pick(keyword_objects, groups, g)]

SearchGroups(keyword_objects, req) == Lists(keyword_objects, AdGroups(keyword_objects, req))

\* Line 253
LocationsList(target_locations) == IF target_locations # << >> THEN SeqMap(Strip, SplitOn(target_locations, ",")) ELSE << >>

\* Line 261
TotalBudget(b) == b.cap + b.bud + b.pmax

\* Line 262: round(total_budget * 0.02 / max(1, total_volume), 2), 0.0 when
\* total_volume is 0.  In cents that is total_budget * 2 / total_volume.
TargetCpc(total_budget, total_volume, tieUp) == IF total_volume > 0 THEN Num(10 * RoundDiv(total_budget * 2, total_volume, tieUp)) ELSE Num(0)

\* Lines 265-272
Capped(mid, target_cpc, tieUp) == IF mid # << >> THEN Round2(PyMin(mid[1], target_cpc), tieUp) ELSE target_cpc

SuggestedCpc(kw, target_cpc, tieUp) == Capped(CpcMidpoint(kw), target_cpc, tieUp)

\* Lines 264-280
ShoppingCpc(keyword_objects, target_cpc, tieUp) == SeqMap(LAMBDA kw : [keyword |-> kw.keyword, search_volume |-> kw.search_volume, competition |-> kw.competition, suggested_cpc |-> SuggestedCpc(kw, target_cpc, tieUp)], keyword_objects)

(***************************************************************************)
(* The inputs of the model                                                 *)
(***************************************************************************)

\* The longest list the keyword-ideation collaborator returns.
MaxIdeas == 2

\* The longest list of themes the text-generation collaborator returns in
\* SpecThemes.
MaxThemes == 2

\* Names the brand, the competitor and a location in four words; exactly the
\* threshold; a range that parses.
Idea_AcmeRival == [keyword |-> <<"A", "c", "m", "e", " ", "r", "i", "v", "a", "l", " ", "i", "n", " ", "G", "o", "a">>, search_volume |-> <<500>>, competition |-> <<"HIGH">>, cpc_range |-> <<<<"$", "1", ".", "0", "0", " ", "-", " ", "$", "2", ".", "0", "0">>>>]

\* Three words; a range float() rejects.
Idea_BuyWhey == [keyword |-> <<"b", "u", "y", " ", "w", "h", "e", "y", " ", "n", "o", "w">>, search_volume |-> <<600>>, competition |-> <<"LOW">>, cpc_range |-> <<<<"a", "b", "c">>>>]

\* One word; no range.
Idea_Gym == [keyword |-> <<"g", "y", "m">>, search_volume |-> <<900>>, competition |-> << >>, cpc_range |-> << >>]

\* One below the threshold.
Idea_Low == [keyword |-> <<"A", "c", "m", "e", " ", "g", "y", "m">>, search_volume |-> <<499>>, competition |-> <<"LOW">>, cpc_range |-> <<<<"$", "1", ".", "0", "0", " ", "-", " ", "$", "2", ".", "0", "0">>>>]

\* A volume of 0.
Idea_Zero == [keyword |-> <<"g", "y", "m">>, search_volume |-> <<0>>, competition |-> << >>, cpc_range |-> << >>]

\* No volume.
Idea_NoVolume == [keyword |-> <<"G", "o", "a", " ", "g", "y", "m">>, search_volume |-> << >>, competition |-> << >>, cpc_range |-> <<<<"$", "1", ".", "0", "0", " ", "-", " ", "$", "2", ".", "0", "0">>>>]

\* A range whose two pieces float() reads as not-a-number.
Idea_NaN == [keyword |-> <<"w", "h", "e", "y">>, search_volume |-> <<700>>, competition |-> << >>, cpc_range |-> <<<<"n", "a", "n", " ", "-", " ", "n", "a", "n">>>>]

Ideas == {Idea_AcmeRival, Idea_BuyWhey, Idea_Gym, Idea_Low, Idea_Zero, Idea_NoVolume, Idea_NaN}

SeqsUpTo(S, n) == UNION {[1..k -> S] : k \in 0..n}

IdeaLists == SeqsUpTo(Ideas, MaxIdeas)

Url_Acme == <<"h", "t", "t", "p", "s", ":", "/", "/", "w", "w", "w", ".", "A", "c", "m", "e", ".", "i", "o">>

Url_Rival == <<"h", "t", "t", "p", ":", "/", "/", "r", "i", "v", "a", "l", ".", "i", "o">>

Loc_Two == <<"G", "o", "a", ",", " ", "P", "u", "n", "e">>

Loc_Blank == <<"P", "u", "n", "e", ",">>

Loc_Twice == <<"P", "u", "n", "e", ",", "P", "u", "n", "e">>

\* With 200000 the target CPC lies above the midpoint 1.50 of the range
\* "$1.00 - $2.00"; with the others it lies below.
Budget_Large == [cap |-> 100000, bud |-> 50000, pmax |-> 50000]

Budget_Negative == [cap |-> -1000, bud |-> 0, pmax |-> 0]

Budget_Zero == [cap |-> 0, bud |-> 0, pmax |-> 0]

\* SEMInputs as schemas.py admits them: brand_website and target_locations are
\* str, competitor_website and themes are Optional, the budget is three ints
\* of either sign.
Requests == [brand_website : {Url_Acme, << >>}, competitor_website : {<< >>, <<Url_Rival>>}, target_locations : {Loc_Two, Loc_Blank}, themes : {<< << >> >>}, budget_allocations : {Budget_Large}] \cup {[brand_website |-> Url_Acme, competitor_website |-> << >>, target_locations |-> << >>, themes |-> << << >> >>, budget_allocations |-> Budget_Negative]} \cup {[brand_website |-> Url_Acme, competitor_website |-> << >>, target_locations |-> Loc_Twice, themes |-> t, budget_allocations |-> Budget_Zero] : t \in {<< >>, << << >> >>}}

\* The empty text.
Resp_Empty == << >>

\* Prose only: not JSON, and no brace to cut at.
Resp_Prose == <<Tok("word"), Tok("word")>>

\* Prose with braces around more prose: neither read succeeds.
Resp_Braces == <<Tok("word"), Tok("{"), Tok("word"), Tok("}")>>

\* The JSON text []: a value that is not an object.
Resp_Array == <<Tok("["), Tok("]")>>

\* An object between two lines of a code fence: read from the first { to the last }.
Resp_Fenced == <<Tok("word"), Tok("{"), StrTok(<<"t", "h", "e", "m", "e", "s">>), Tok(":"), Tok("["), Tok("{"), StrTok(<<"n", "a", "m", "e">>), Tok(":"), StrTok(<<"W", "h", "e", "y">>), Tok(","), StrTok(<<"k", "e", "y", "w", "o", "r", "d", "s">>), Tok(":"), Tok("["), StrTok(<<"w", "h", "e", "y">>), Tok(","), StrTok(<<"g", "y", "m">>), Tok(","), StrTok(<<"w", "h", "e", "y">>), Tok("]"), Tok(","), StrTok(<<"t", "o", "t", "a", "l", "_", "v", "o", "l", "u", "m", "e">>), Tok(":"), NumTok(<<"1", "9", "0", "0">>), Tok("}"), Tok(","), Tok("{"), StrTok(<<"n", "a", "m", "e">>), Tok(":"), StrTok(<<"G", "o", "a", " ", "c", "i", "t", "y">>), Tok(","), StrTok(<<"k", "e", "y", "w", "o", "r", "d", "s">>), Tok(":"), Tok("["), StrTok(<<"G", "o", "a">>), Tok("]"), Tok("}"), Tok("]"), Tok("}"), Tok("word")>>

\* A themes value that is a string.
Resp_ThemesNotList == <<Tok("{"), StrTok(<<"t", "h", "e", "m", "e", "s">>), Tok(":"), StrTok(<<"n", "o", "n", "e">>), Tok("}")>>

\* An entry that is not a dict, and a keywords value that is not a list.
Resp_EntryTypes == <<Tok("{"), StrTok(<<"t", "h", "e", "m", "e", "s">>), Tok(":"), Tok("["), StrTok(<<"x">>), Tok(","), Tok("{"), StrTok(<<"n", "a", "m", "e">>), Tok(":"), StrTok(<<"U", "s", "e">>), Tok(","), StrTok(<<"k", "e", "y", "w", "o", "r", "d", "s">>), Tok(":"), StrTok(<<"g", "y", "m">>), Tok("}"), Tok("]"), Tok("}")>>

\* A theme whose name is null.
Resp_NameNull == <<Tok("{"), StrTok(<<"t", "h", "e", "m", "e", "s">>), Tok(":"), Tok("["), Tok("{"), StrTok(<<"n", "a", "m", "e">>), Tok(":"), Tok("null"), Tok(","), StrTok(<<"k", "e", "y", "w", "o", "r", "d", "s">>), Tok(":"), Tok("["), StrTok(<<"g", "y", "m">>), Tok("]"), Tok("}"), Tok("]"), Tok("}")>>

\* A keyword that is a number.
Resp_KwNumber == <<Tok("{"), StrTok(<<"t", "h", "e", "m", "e", "s">>), Tok(":"), Tok("["), Tok("{"), StrTok(<<"n", "a", "m", "e">>), Tok(":"), StrTok(<<"F", "e", "s", "t">>), Tok(","), StrTok(<<"k", "e", "y", "w", "o", "r", "d", "s">>), Tok(":"), Tok("["), StrTok(<<"5">>), Tok(","), NumTok(<<"5">>), Tok("]"), Tok("}"), Tok("]"), Tok("}")>>

\* Four themes, read directly.
Resp_Valid == <<Tok("{"), StrTok(<<"t", "h", "e", "m", "e", "s">>), Tok(":"), Tok("["), Tok("{"), StrTok(<<"n", "a", "m", "e">>), Tok(":"), StrTok(<<"V", "e", "g", "a", "n", " ", "u", "s", "e">>), Tok(","), StrTok(<<"k", "e", "y", "w", "o", "r", "d", "s">>), Tok(":"), Tok("["), StrTok(<<"w", "h", "e", "y">>), Tok(","), StrTok(<<"g", "y", "m">>), Tok("]"), Tok("}"), Tok(","), Tok("{"), StrTok(<<"n", "a", "m", "e">>), Tok(":"), StrTok(<<"R", "e", "c", "o", "v", "e", "r", "y">>), Tok(","), StrTok(<<"k", "e", "y", "w", "o", "r", "d", "s">>), Tok(":"), Tok("["), StrTok(<<"g", "y", "m">>), Tok(","), StrTok(<<"b", "u", "y", " ", "w", "h", "e", "y", " ", "n", "o", "w">>), Tok(","), StrTok(<<"g", "y", "m">>), Tok("]"), Tok("}"), Tok(","), Tok("{"), StrTok(<<"n", "a", "m", "e">>), Tok(":"), StrTok(<<"B", "r", "a", "n", "d", "s">>), Tok(","), StrTok(<<"k", "e", "y", "w", "o", "r", "d", "s">>), Tok(":"), Tok("["), StrTok(<<"g", "y", "m">>), Tok(","), StrTok(<<"a", "c", "m", "e">>), Tok("]"), Tok("}"), Tok(","), Tok("{"), StrTok(<<"n", "a", "m", "e">>), Tok(":"), StrTok(<<"D", "i", "w", "a", "l", "i">>), Tok(","), StrTok(<<"k", "e", "y", "w", "o", "r", "d", "s">>), Tok(":"), Tok("["), StrTok(<<"s", "a", "l", "e">>), Tok("]"), Tok("}"), Tok("]"), Tok("}")>>

Responses == {Resp_Empty, Resp_Prose, Resp_Braces, Resp_Array, Resp_Fenced, Resp_ThemesNotList, Resp_EntryTypes, Resp_NameNull, Resp_KwNumber, Resp_Valid}

(***************************************************************************)
(* One request to generate_sem_plan.  The steps are cut at the two         *)
(* collaborator calls: everything the function computes between two calls  *)
(* happens in the action that receives the earlier call's outcome.         *)
(***************************************************************************)

VARIABLES
    pc,               \* "idle", "ideation" (call in flight), "llm" (call in flight), "done", "error"
    model,            \* line 41-45: whether a text-generation model is configured
    inputs,           \* the SEMInputs of the request, << >> before it arrives
    calls,            \* the collaborator calls made so far, in order
    ideas,            \* what get_keywords_from_google returned (keywords_data at line 170)
    keyword_objects,  \* line 186
    total_keywords,   \* line 196
    total_volume,     \* line 197
    avg_cpc,          \* line 208
    search_groups,    \* line 227
    locations_list,   \* line 253
    llm,              \* the outcome of model.generate_content: [configured, raises, text]
    target_cpc,       \* line 262
    plan,             \* the SEMOutput returned, << >> while there is none
    error             \* "none"; "ideation": the HTTPException of line 178; "themes", "output": an exception nothing catches

vars == <<pc, model, inputs, calls, ideas, keyword_objects, total_keywords, total_volume, avg_cpc, search_groups, locations_list, llm, target_cpc, plan, error>>

NoLlm == [configured |-> FALSE, raises |-> FALSE, text |-> << >>]

\* The module is loaded: the configuration decides whether there is a model.
Init == /\ pc = "idle"
        /\ model \in BOOLEAN
        /\ inputs = << >>
        /\ calls = << >>
        /\ ideas = << >>
        /\ keyword_objects = << >>
        /\ total_keywords = 0
        /\ total_volume = 0
        /\ avg_cpc = Num(0)
        /\ search_groups = [g \in GroupNames |-> << >>]
        /\ locations_list = << >>
        /\ llm = NoLlm
        /\ target_cpc = Num(0)
        /\ plan = << >>
        /\ error = "none"

\* Lines 163-176: a request arrives and the keyword-ideation call is made.
Begin(requests) == /\ pc = "idle"
                   /\ \E req \in requests : inputs' = <<req>>
                   /\ calls' = Append(calls, "ideation")
                   /\ pc' = "ideation"
                   /\ UNCHANGED <<model, ideas, keyword_objects, total_keywords, total_volume, avg_cpc, search_groups, locations_list, llm, target_cpc, plan, error>>

\* Lines 177-178: the call raises and the request ends in HTTPException(500).
IdeationFails == /\ pc = "ideation"
                 /\ pc' = "error"
                 /\ error' = "ideation"
                 /\ UNCHANGED <<model, inputs, calls, ideas, keyword_objects, total_keywords, total_volume, avg_cpc, search_groups, locations_list, llm, target_cpc, plan>>

\* Lines 259-298 once pmax_map is known: the bids, then the SEMOutput.
SEMOutput(req, objs, groups, locs, volume, avg, pmax_map, target, tieUp) == [brand |-> req.brand_website, competitor |-> req.competitor_website, locations |-> locs, budget_allocations |-> req.budget_allocations, total_budget |-> TotalBudget(req.budget_allocations), total_keywords |-> Len(objs), total_volume |-> volume, avg_cpc |-> avg, themes |-> req.themes[1], searchAdGroups |-> groups, pmaxThemes |-> pmax_map, shoppingCPC |-> ShoppingCpc(objs, target, tieUp)]

\* Lines 259-298 given the result of generate_pmax_themes_llm.  An exception of
\* generate_pmax_themes_llm leaves generate_sem_plan.  themes is List[str] in
\* SEMOutput and Optional in SEMInputs: a request with themes = None fails the
\* validation of the output at line 285.
Conclude(req, objs, groups, locs, volume, avg, themed, target, tieUp) == /\ target_cpc' = (IF themed.raised THEN target_cpc ELSE target)
                                                                         /\ pc' = (IF themed.raised \/ req.themes = << >> THEN "error" ELSE "done")
                                                                         /\ error' = (IF themed.raised THEN "themes" ELSE IF req.themes = << >> THEN "output" ELSE error)
                                                                         /\ plan' = (IF themed.raised \/ req.themes = << >> THEN plan ELSE <<SEMOutput(req, objs, groups, locs, volume, avg, themed.themes, target, tieUp)>>)

\* Lines 254-298 given the outcome of the text-generation call (or none made).
Finish(req, objs, groups, locs, volume, avg, outcome, strict) == /\ llm' = outcome
                                                                 /\ \E tieUp \in BOOLEAN : Conclude(req, objs, groups, locs, volume, avg, generate_pmax_themes_llm(SeqMap(LAMBDA k : k.keyword, objs), locs, outcome, strict), TargetCpc(TotalBudget(req.budget_allocations), volume, tieUp), tieUp)

\* Lines 196-253 and the branch of line 89.  Without a model
\* generate_pmax_themes_llm returns its fallback at line 90 and the function
\* runs to its end; with one, line 116 makes the call.
Proceed(req, objs, groups, locs, volume, avg) == /\ keyword_objects' = objs
                                                 /\ total_keywords' = Len(objs)
                                                 /\ total_volume' = volume
                                                 /\ search_groups' = groups
                                                 /\ locations_list' = locs
                                                 /\ avg_cpc' = avg
                                                 /\ IF SkipsLlm(model)
                                                    THEN /\ Finish(req, objs, groups, locs, volume, avg, NoLlm, FALSE)
                                                         /\ UNCHANGED calls
                                                    ELSE /\ calls' = Append(calls, "llm")
                                                         /\ pc' = "llm"
                                                         /\ UNCHANGED <<llm, target_cpc, plan, error>>

Filtered(req, objs) == \E avgTieUp \in BOOLEAN : Proceed(req, objs, SearchGroups(objs, req), LocationsList(req.target_locations), TotalVolume(objs), AvgCpc(objs, avgTieUp))

\* Lines 180-253: the call returned.  The list is filtered, counted, averaged and
\* grouped.
IdeationReturns(lists) == /\ pc = "ideation"
                          /\ \E keywords_data \in lists : /\ ideas' = keywords_data
                                                          /\ Filtered(inputs[1], FilterKeywords(keywords_data))
                          /\ UNCHANGED <<model, inputs>>

\* Lines 118-119: the call raises; the fallback is returned.
LlmRaises == /\ pc = "llm"
             /\ Finish(inputs[1], keyword_objects, search_groups, locations_list, total_volume, avg_cpc, [configured |-> TRUE, raises |-> TRUE, text |-> << >>], FALSE)
             /\ UNCHANGED <<model, inputs, calls, ideas, keyword_objects, total_keywords, total_volume, avg_cpc, search_groups, locations_list>>

\* Lines 116-156: the call returns a text.  strict: whether the validator of
\* PMaxTheme rejects a number where a str is declared.
LlmReturns(texts) == /\ pc = "llm"
                     /\ \E text \in texts, strict \in BOOLEAN : Finish(inputs[1], keyword_objects, search_groups, locations_list, total_volume, avg_cpc, [configured |-> TRUE, raises |-> FALSE, text |-> text], strict)
                     /\ UNCHANGED <<model, inputs, calls, ideas, keyword_objects, total_keywords, total_volume, avg_cpc, search_groups, locations_list>>

Next == \/ Begin(Requests)
        \/ IdeationFails
        \/ IdeationReturns(IdeaLists)
        \/ LlmRaises
        \/ LlmReturns(Responses)

Spec == Init /\ [][Next]_vars

(***************************************************************************)
(* Responses built from lists of themes, for SpecThemes: the text is what  *)
(* json.dumps gives for {"themes": [{"name": ..., "keywords": ...}, ...]}. *)
(***************************************************************************)

\* A name with a product word and a usecase word; a keyword twice.
Theme_VeganUse == [name |-> <<"V", "e", "g", "a", "n", " ", "u", "s", "e">>, keywords |-> <<<<"g", "y", "m">>, <<"w", "h", "e", "y">>, <<"g", "y", "m">>>>, listed |-> TRUE]

\* A name that holds "use" inside another word.
Theme_House == [name |-> <<"H", "o", "u", "s", "e">>, keywords |-> <<<<"w", "h", "e", "y">>, <<"s", "a", "l", "e">>>>, listed |-> TRUE]

\* A name with a demographic word and a seasonal word.
Theme_CityFest == [name |-> <<"G", "o", "a", " ", "c", "i", "t", "y", " ", "f", "e", "s", "t">>, keywords |-> <<<<"G", "o", "a">>, <<"g", "y", "m">>>>, listed |-> TRUE]

\* A seasonal word in another case.
Theme_Xmas == [name |-> <<"X", "m", "a", "s">>, keywords |-> <<<<"s", "a", "l", "e">>, <<"s", "a", "l", "e">>>>, listed |-> TRUE]

\* A name with none of the words.
Theme_Brands == [name |-> <<"B", "r", "a", "n", "d", "s">>, keywords |-> <<<<"a", "c", "m", "e">>, <<"g", "y", "m">>>>, listed |-> TRUE]

\* A keywords value that is a string, not a list.
Theme_Recovery == [name |-> <<"R", "e", "c", "o", "v", "e", "r", "y">>, keywords |-> <<<<"g", "y", "m">>>>, listed |-> FALSE]

ThemeCatalog == {Theme_VeganUse, Theme_House, Theme_CityFest, Theme_Xmas, Theme_Brands, Theme_Recovery}

RECURSIVE JoinToks(_)
JoinToks(parts) == IF parts = << >> THEN << >>
                   ELSE IF Len(parts) = 1 THEN parts[1]
                   ELSE parts[1] \o <<Tok(",")>> \o JoinToks(Tail(parts))

ThemeToks(th) == <<Tok("{"), StrTok(K_name), Tok(":"), StrTok(th.name), Tok(","), StrTok(K_keywords), Tok(":")>> \o (IF th.listed THEN <<Tok("[")>> \o JoinToks(SeqMap(LAMBDA k : <<StrTok(k)>>, th.keywords)) \o <<Tok("]")>> ELSE <<StrTok(th.keywords[1])>>) \o <<Tok("}")>>

ThemesText(list) == <<Tok("{"), StrTok(K_themes), Tok(":"), Tok("[")>> \o JoinToks(SeqMap(ThemeToks, list)) \o <<Tok("]"), Tok("}")>>

ThemeResponses == {ThemesText(list) : list \in SeqsUpTo(ThemeCatalog, MaxThemes)}

ThemeRequests == {[brand_website |-> Url_Acme, competitor_website |-> <<Url_Rival>>, target_locations |-> loc, themes |-> << << >> >>, budget_allocations |-> Budget_Large] : loc \in {<< >>, Loc_Twice}}

ThemeIdeaLists == {<< >>, <<Idea_Gym, Idea_AcmeRival>>, <<Idea_Gym, Idea_Gym>>}

InitThemes == Init /\ model

NextThemes == \/ Begin(ThemeRequests)
              \/ IdeationReturns(ThemeIdeaLists)
              \/ LlmReturns(Responses \cup ThemeResponses)

SpecThemes == InitThemes /\ [][NextThemes]_vars

(***************************************************************************)
(* Properties of the plan                                                  *)
(***************************************************************************)

\* The ideation call has returned and lines 180-253 have run.
PastIdeation == pc \in {"llm", "done"} \/ (pc = "error" /\ error # "ideation")

\* The text-generation call was made and returned a text.
LlmAnswered == llm.configured /\ ~llm.raises

Range(s) == {s[i] : i \in 1..Len(s)}

\* a <= b on floats: false when either is not a number.
FloatLe(a, b) == ~a.nan /\ ~b.nan /\ a.v <= b.v

KeywordTexts(objs) == SeqMap(LAMBDA k : k.keyword, objs)

NoDuplicates(seq) == \A i, j \in 1..Len(seq) : seq[i] = seq[j] => i = j

FirstIndex(seq, x) == CHOOSE i \in 1..Len(seq) : seq[i] = x /\ \A j \in 1..(i - 1) : seq[j] # x

\* out holds each element of in once, in the order of first occurrence in in.
IsDedupOf(out, in) == /\ NoDuplicates(out)
                      /\ Range(out) = Range(in)
                      /\ \A i, j \in 1..Len(out) : i < j => FirstIndex(in, out[i]) < FirstIndex(in, out[j])

C1_Survives(kw) == kw.search_volume # << >> /\ kw.search_volume[1] >= 500

C1_Entry(kw) == [keyword |-> kw.keyword, search_volume |-> kw.search_volume, competition |-> kw.competition]

C1_Kept(list) == SelectSeq(list, C1_Survives)

\* C1: the keywords carried into the plan are exactly the records of the
\* ideation list whose search_volume is present and at least 500, in the order
\* of the list; a record without a volume, with volume 0 or below 500 is in
\* no bid, no ad group and no total.
C1_FilterExact == /\ PastIdeation => /\ keyword_objects = C1_Kept(ideas)
                                     /\ total_keywords = Len(C1_Kept(ideas))
                                     /\ total_volume = SumSeq(SeqMap(LAMBDA k : k.search_volume[1], C1_Kept(ideas)))
                                     /\ \A g \in GroupNames : \A i \in 1..Len(search_groups[g]) : C1_Survives(search_groups[g][i])
                  /\ pc = "done" => /\ SeqMap(C1_Entry, plan[1].shoppingCPC) = SeqMap(C1_Entry, C1_Kept(ideas))
                                    /\ plan[1].total_keywords = Len(C1_Kept(ideas))
                                    /\ plan[1].total_volume = SumSeq(SeqMap(LAMBDA k : k.search_volume[1], C1_Kept(ideas)))
                                    /\ \A g \in DOMAIN plan[1].searchAdGroups : \A i \in 1..Len(plan[1].searchAdGroups[g]) : C1_Survives(plan[1].searchAdGroups[g][i])

\* A plan from a list with a record at exactly 500, which is kept, and a record
\* without a volume, which is dropped.
C1_Witness == /\ pc = "done"
              /\ Len(ideas) = 2
              /\ ideas[1].search_volume = <<500>>
              /\ ideas[2].search_volume = << >>
              /\ Len(plan[1].shoppingCPC) = 1

C2_Count(seq, x) == Cardinality({i \in 1..Len(seq) : seq[i] = x})

C2_Volume(seq) == SumSeq(SeqMap(LAMBDA k : IF k.search_volume = << >> THEN 0 ELSE k.search_volume[1], seq))

C2_All(groups) == groups["Brand & Product Terms"] \o groups["Category Terms"] \o groups["Competitor Terms"] \o groups["Informational Queries"] \o groups["Location-based Queries"]

\* C2: searchAdGroups has exactly the five keys, the five lists hold every
\* occurrence of every surviving keyword exactly once and nothing else, their
\* sizes sum to total_keywords and their volumes to total_volume.
C2_Partition == pc = "done" => /\ DOMAIN plan[1].searchAdGroups = {"Brand & Product Terms", "Category Terms", "Competitor Terms", "Informational Queries", "Location-based Queries"}
                               /\ \A kw \in Range(keyword_objects) \cup Range(C2_All(plan[1].searchAdGroups)) : C2_Count(C2_All(plan[1].searchAdGroups), kw) = C2_Count(keyword_objects, kw)
                               /\ Len(C2_All(plan[1].searchAdGroups)) = plan[1].total_keywords
                               /\ Len(plan[1].shoppingCPC) = plan[1].total_keywords
                               /\ C2_Volume(C2_All(plan[1].searchAdGroups)) = plan[1].total_volume

\* A plan with two keywords in two groups and three groups empty.
C2_Witness == /\ pc = "done"
              /\ Len(plan[1].searchAdGroups["Brand & Product Terms"]) = 1
              /\ Len(plan[1].searchAdGroups["Category Terms"]) = 1
              /\ plan[1].total_keywords = 2

C3_HasBrand(k, req) == clean_domain(req.brand_website) # << >> /\ Contains(clean_domain(req.brand_website), Lower(k.keyword))

C3_HasCompetitor(k, req) == /\ req.competitor_website # << >>
                            /\ clean_domain(req.competitor_website[1]) # << >>
                            /\ Contains(clean_domain(req.competitor_website[1]), Lower(k.keyword))

\* A target-location token is a comma-separated piece of target_locations,
\* trimmed; the comparison ignores case.
C3_HasLocation(k, req) == /\ req.target_locations # << >>
                          /\ \E p \in Range(SplitOn(req.target_locations, ",")) : Contains(Lower(Strip(p)), Lower(k.keyword))

C3_Long(k) == WordCount(Lower(k.keyword)) >= 3

\* C3: every keyword of an ad group is there by the first rule of the chain it
\* satisfies: brand token, else competitor token, else a location token, else
\* three or more words, else category; a site that is empty or absent puts no
\* keyword in its group.
C3_FirstRuleWins == pc = "done" => /\ \A i \in 1..Len(plan[1].searchAdGroups["Brand & Product Terms"]) : C3_HasBrand(plan[1].searchAdGroups["Brand & Product Terms"][i], inputs[1])
                                   /\ \A i \in 1..Len(plan[1].searchAdGroups["Competitor Terms"]) : /\ ~C3_HasBrand(plan[1].searchAdGroups["Competitor Terms"][i], inputs[1])
                                                                                                 /\ C3_HasCompetitor(plan[1].searchAdGroups["Competitor Terms"][i], inputs[1])
                                   /\ \A i \in 1..Len(plan[1].searchAdGroups["Location-based Queries"]) : /\ ~C3_HasBrand(plan[1].searchAdGroups["Location-based Queries"][i], inputs[1])
                                                                                                       /\ ~C3_HasCompetitor(plan[1].searchAdGroups["Location-based Queries"][i], inputs[1])
                                                                                                       /\ C3_HasLocation(plan[1].searchAdGroups["Location-based Queries"][i], inputs[1])
                                   /\ \A i \in 1..Len(plan[1].searchAdGroups["Informational Queries"]) : /\ ~C3_HasBrand(plan[1].searchAdGroups["Informational Queries"][i], inputs[1])
                                                                                                      /\ ~C3_HasCompetitor(plan[1].searchAdGroups["Informational Queries"][i], inputs[1])
                                                                                                      /\ ~C3_HasLocation(plan[1].searchAdGroups["Informational Queries"][i], inputs[1])
                                                                                                      /\ C3_Long(plan[1].searchAdGroups["Informational Queries"][i])
                                   /\ \A i \in 1..Len(plan[1].searchAdGroups["Category Terms"]) : /\ ~C3_HasBrand(plan[1].searchAdGroups["Category Terms"][i], inputs[1])
                                                                                               /\ ~C3_HasCompetitor(plan[1].searchAdGroups["Category Terms"][i], inputs[1])
                                                                                               /\ ~C3_HasLocation(plan[1].searchAdGroups["Category Terms"][i], inputs[1])
                                                                                               /\ ~C3_Long(plan[1].searchAdGroups["Category Terms"][i])
                                   /\ inputs[1].brand_website = << >> => plan[1].searchAdGroups["Brand & Product Terms"] = << >>
                                   /\ inputs[1].competitor_website = << >> => plan[1].searchAdGroups["Competitor Terms"] = << >>

\* A brand term that also names the competitor and a location in four words,
\* and in the same plan a keyword that no rule but the last places.
C3_Witness == /\ pc = "done"
              /\ \E i \in 1..Len(plan[1].searchAdGroups["Brand & Product Terms"]) : /\ C3_HasCompetitor(plan[1].searchAdGroups["Brand & Product Terms"][i], inputs[1])
                                                                                 /\ C3_HasLocation(plan[1].searchAdGroups["Brand & Product Terms"][i], inputs[1])
                                                                                 /\ C3_Long(plan[1].searchAdGroups["Brand & Product Terms"][i])
              /\ plan[1].searchAdGroups["Category Terms"] # << >>

\* C4: every bid of a plan satisfies 0 <= suggested_cpc <= target_cpc.
C4_BidWithinTarget == pc = "done" => \A i \in 1..Len(plan[1].shoppingCPC) : /\ FloatLe(Num(0), plan[1].shoppingCPC[i].suggested_cpc)
                                                                          /\ FloatLe(plan[1].shoppingCPC[i].suggested_cpc, target_cpc)

\* C5: without a model, or when the call raised, the themes are the fallback:
\* product is the list of keyword texts as filtered (duplicates kept), usecase
\* the texts of three or more words, demographic the location list, seasonal
\* "<location> seasonal trends" per location in order, every total_volume 0.
C5_Fallback == (pc = "done" /\ (~model \/ llm.raises)) => /\ plan[1].pmaxThemes.product.keywords = KeywordTexts(keyword_objects)
                                                          /\ plan[1].pmaxThemes.usecase.keywords = SelectSeq(KeywordTexts(keyword_objects), LAMBDA t : WordCount(t) >= 3)
                                                          /\ plan[1].pmaxThemes.demographic.keywords = plan[1].locations
                                                          /\ Len(plan[1].pmaxThemes.seasonal.keywords) = Len(plan[1].locations)
                                                          /\ \A i \in 1..Len(plan[1].locations) : plan[1].pmaxThemes.seasonal.keywords[i] = plan[1].locations[i] \o <<" ", "s", "e", "a", "s", "o", "n", "a", "l", " ", "t", "r", "e", "n", "d", "s">>
                                                          /\ \A b \in DOMAIN plan[1].pmaxThemes : plan[1].pmaxThemes[b].total_volume = 0

\* The call raised, with two locations and a keyword of exactly three words
\* among the keywords.
C5_Witness == /\ pc = "done"
              /\ llm.raises
              /\ Len(plan[1].locations) = 2
              /\ \E i \in 1..Len(keyword_objects) : WordCount(keyword_objects[i].keyword) = 3
              /\ \E i \in 1..Len(keyword_objects) : WordCount(keyword_objects[i].keyword) < 3

\* The text reads as JSON neither as it is nor from its first "{" to its last "}".
C6_Unparseable(text) == ~json_loads(text).ok /\ ~Sliced(text, FindOpen(text), RFindClose(text)).ok

\* C6 as claimed: after a response that cannot be parsed, product is the full
\* keyword list, usecase and seasonal are empty and demographic is the
\* location list.
C6_FullKeywordList == (pc = "done" /\ LlmAnswered /\ C6_Unparseable(llm.text)) => /\ plan[1].pmaxThemes.product.keywords = KeywordTexts(keyword_objects)
                                                                                 /\ plan[1].pmaxThemes.usecase.keywords = << >>
                                                                                 /\ plan[1].pmaxThemes.demographic.keywords = plan[1].locations
                                                                                 /\ plan[1].pmaxThemes.seasonal.keywords = << >>
                                                                                 /\ \A b \in DOMAIN plan[1].pmaxThemes : plan[1].pmaxThemes[b].total_volume = 0

\* C6 as amended: after a response that cannot be parsed, product is the keyword
\* list with every repetition of a text after its first removed, usecase and
\* seasonal are empty, demographic is the location list, every total_volume 0.
C6_DedupKeywordList == (pc = "done" /\ LlmAnswered /\ C6_Unparseable(llm.text)) => /\ IsDedupOf(plan[1].pmaxThemes.product.keywords, KeywordTexts(keyword_objects))
                                                                                  /\ plan[1].pmaxThemes.usecase.keywords = << >>
                                                                                  /\ plan[1].pmaxThemes.demographic.keywords = plan[1].locations
                                                                                  /\ plan[1].pmaxThemes.seasonal.keywords = << >>
                                                                                  /\ \A b \in DOMAIN plan[1].pmaxThemes : plan[1].pmaxThemes[b].total_volume = 0

\* Prose with braces in it was returned, for two keywords of the same text and
\* two locations.
C6_Witness == /\ pc = "done"
              /\ LlmAnswered
              /\ llm.text # << >>
              /\ C6_Unparseable(llm.text)
              /\ Len(keyword_objects) = 2
              /\ Len(plan[1].pmaxThemes.product.keywords) = 1
              /\ plan[1].locations # << >>

\* C7: a request ends in an error only when the ideation call failed; otherwise
\* it ends in a plan with a bid for every surviving keyword.
C7_OnlyIdeationFails == /\ pc = "error" => error = "ideation"
                        /\ pc = "done" => Len(plan[1].shoppingCPC) = Len(keyword_objects)

\* C8: at most two calls, each at most once, ideation first; the
\* text-generation call is made only with a model, only once the ideation call
\* has returned and the list is filtered, and never after a failed ideation.
C8_CallOrder == /\ calls \in {<< >>, <<"ideation">>, <<"ideation", "llm">>}
                /\ (pc = "idle") = (calls = << >>)
                /\ pc = "ideation" => calls = <<"ideation">>
                /\ pc = "llm" => calls = <<"ideation", "llm">>
                /\ error = "ideation" => calls = <<"ideation">>
                /\ ~model => calls # <<"ideation", "llm">>
                /\ calls = <<"ideation", "llm">> => /\ PastIdeation
                                                    /\ keyword_objects = C1_Kept(ideas)

\* Both calls were made, in order, and the plan returned, for a list from which
\* the filter dropped a record.
C8_Witness == /\ pc = "done"
              /\ calls = <<"ideation", "llm">>
              /\ keyword_objects # << >>
              /\ Len(ideas) > Len(keyword_objects)

C9_Product == {<<"p", "r", "o", "d", "u", "c", "t">>, <<"p", "r", "o", "t", "e", "i", "n">>, <<"w", "h", "e", "y">>, <<"v", "e", "g", "a", "n">>, <<"o", "r", "g", "a", "n", "i", "c">>}

C9_Usecase == {<<"u", "s", "e">>, <<"r", "e", "c", "o", "v", "e", "r", "y">>, <<"w", "e", "i", "g", "h", "t">>}

C9_Demographic == {<<"c", "i", "t", "y">>, <<"i", "n", "d", "i", "a">>, <<"d", "e", "l", "h", "i">>, <<"m", "u", "m", "b", "a", "i">>, <<"l", "o", "c", "a", "t", "i", "o", "n">>}

C9_Seasonal == {<<"s", "e", "a", "s", "o", "n">>, <<"s", "u", "m", "m", "e", "r">>, <<"w", "i", "n", "t", "e", "r">>, <<"h", "o", "l", "i", "d", "a", "y">>, <<"f", "e", "s", "t">>, <<"d", "i", "w", "a", "l", "i">>, <<"x", "m", "a", "s">>}

C9_Names(tokens, th) == \E w \in tokens : Contains(w, Lower(th.name))

\* The bucket the chain gives a theme.
C9_Goes(th, bucket) == CASE bucket = "product" -> C9_Names(C9_Product, th) \/ ~(C9_Names(C9_Usecase, th) \/ C9_Names(C9_Demographic, th) \/ C9_Names(C9_Seasonal, th))
                         [] bucket = "usecase" -> ~C9_Names(C9_Product, th) /\ C9_Names(C9_Usecase, th)
                         [] bucket = "demographic" -> ~C9_Names(C9_Product, th) /\ ~C9_Names(C9_Usecase, th) /\ C9_Names(C9_Demographic, th)
                         [] bucket = "seasonal" -> ~C9_Names(C9_Product, th) /\ ~C9_Names(C9_Usecase, th) /\ ~C9_Names(C9_Demographic, th) /\ C9_Names(C9_Seasonal, th)

\* What a list of themes contributes to a bucket, in the order of the themes.
RECURSIVE C9_Contributed(_, _)
C9_Contributed(list, bucket) == IF list = << >> THEN << >>
                                ELSE (IF C9_Goes(Head(list), bucket) /\ Head(list).listed THEN Head(list).keywords ELSE << >>) \o C9_Contributed(Tail(list), bucket)

C9_ThemeLists == SeqsUpTo(ThemeCatalog, MaxThemes)

C10_BlankNeverMatches == pc = "done" => \A i \in 1..Len(plan[1].searchAdGroups["Location-based Queries"]) : \E p \in Range(SplitOn(inputs[1].target_locations, ",")) : /\ Strip(p) # << >>
                                                                                                                                                                    /\ Contains(Lower(Strip(p)), Lower(plan[1].searchAdGroups["Location-based Queries"][i].keyword))

====
